---- MODULE Spec2Model ----
(***************************************************************************)
(* Ownership and lifecycle of libffi type descriptors, as implemented in   *)
(* src/middle/types.rs: Type and TypeArray handles over raw pointers, the  *)
(* malloc'ed null-terminated arrays and STRUCT descriptors behind them,    *)
(* and the recursive clone / destroy walks.                                *)
(*                                                                         *)
(* Memory is modelled at the level the code works at: a heap of blocks,    *)
(* each a run of machine words that are read and written through raw       *)
(* pointers.  A block handed back to the allocator holds nothing the       *)
(* program may rely on (its words are dropped), and the allocator may hand *)
(* the same address out again, so a dangling pointer reads whatever its    *)
(* block holds now.  An access to a block that is not allocated is         *)
(* undefined behaviour: the operation is carried through on what it read,  *)
(* the fault is recorded, and the process then either dies ("crashed") or  *)
(* goes on in a state that is not followed further ("survived").           *)
(***************************************************************************)
EXTENDS Integers, Sequences, FiniteSets, Bags, TLC

\* ------------------------------------------------------------- bounds
MaxAddr    == 3      \* heap blocks the allocator can hand out
MaxTypes   == 2      \* Type handles alive at once
MaxArrays  == 2      \* TypeArray handles alive at once
MaxLen     == 2      \* longest Vec<Type> passed to a constructor
NumScalars == 2      \* primitive accessors exercised
MaxAfter   == 3      \* operations followed after the first structure_from_array

\* ------------------------------------------------------ words, pointers
NULL == 0

\* low::type_tag of each primitive, in the order of the accessors
\* void, u8, i8, u16, i16, u32, i32, u64, i64, f32, f64, pointer,
\* longdouble, c32, c64, complex_longdouble.
ScalarTags == <<0, 5, 6, 7, 8, 9, 10, 11, 12, 2, 3, 14, 4, 15, 15, 15>>

\* low::type_tag::STRUCT
STRUCT == 13

Addr == 1 .. MaxAddr

\* Addresses of the process-wide static descriptors low::ffi_type_*.
StaticAddr(k) == 100 + k

Statics == { StaticAddr(k) : k \in 1 .. NumScalars }

\* Field offsets of low::ffi_type, in words: size, alignment, type_, elements.
ffi_type == [size |-> 1, alignment |-> 2, type_ |-> 3, elements |-> 4]

VARIABLES
    heap,      \* [Addr -> [alloc : BOOLEAN, words : Seq(Int)]]
    types,     \* the live Type handles: a bag of descriptor pointers
    arrays,    \* the live TypeArray handles: a bag of array pointers
    status,    \* "running" | "aborted" (failed assert!) | "crashed" | "survived"
    trace,     \* the malloc/free calls of the last operation, in order
    faults,    \* the memory faults of the last operation
    lastOp,    \* the last call: its name, argument and result
    after      \* operations since the first structure_from_array, counting it

vars == <<heap, types, arrays, status, trace, faults, lastOp, after>>

\* ------------------------------------------------------------ machine
\* The memory state threaded through one operation.
Machine(h) == [heap |-> h, trace |-> <<>>, faults |-> {}, halt |-> "none"]

Halted(m) == m.halt # "none"

Halt(m, why) == [m EXCEPT !.halt = why]

Ret(m, v) == [m |-> m, val |-> v]

\* A dereference of p at word i: reading or writing a block that is not
\* allocated, or a word outside the block, is a fault.
Access(m, p, i) ==
    LET f1 == IF m.heap[p].alloc THEN {} ELSE {"use_after_free"}
        f2 == IF i <= Len(m.heap[p].words) THEN {} ELSE {"out_of_bounds"}
    IN  [m EXCEPT !.faults = @ \cup f1 \cup f2]

\* The word read at p[i]; beyond the block, whatever lies there (zero).
Load(m, p, i) ==
    IF i <= Len(m.heap[p].words) THEN m.heap[p].words[i] ELSE NULL

\* *p.offset(i-1) = v
Store(m, p, i, v) ==
    LET m1 == Access(m, p, i)
    IN  IF i <= Len(m.heap[p].words)
        THEN [m1 EXCEPT !.heap[p].words[i] = v]
        ELSE m1

FreeAddrs(h) == { a \in Addr : ~h[a].alloc }

\* The allocation orders of one operation: the allocator returns the free
\* block of lowest rank.
Orders == { r \in [Addr -> Addr] : \A a, b \in Addr : a # b => r[a] # r[b] }

\* libc::malloc of n words: NULL when no block is free, else a free block,
\* which the code fills before it reads it.
malloc(m, n, ord) ==
    LET F == FreeAddrs(m.heap)
    IN  IF F = {} THEN Ret(m, NULL)
        ELSE LET a   == CHOOSE x \in F : \A y \in F : ord[x] <= ord[y]
                 raw == [i \in 1 .. n |-> NULL]
             IN  Ret([m EXCEPT !.heap[a] = [alloc |-> TRUE, words |-> raw],
                               !.trace = Append(@, [call |-> "malloc", addr |-> a, live |-> FALSE])],
                     a)

\* libc::free: the block is returned to the allocator.  Freeing a block that
\* is not allocated is a fault.
free(m, p) ==
    LET ev == [call |-> "free", addr |-> p, live |-> m.heap[p].alloc]
    IN  IF m.heap[p].alloc
        THEN [m EXCEPT !.heap[p] = [alloc |-> FALSE, words |-> <<>>],
                       !.trace = Append(@, ev)]
        ELSE [m EXCEPT !.faults = @ \cup {"double_free"}, !.trace = Append(@, ev)]

\* (*p).type_ of a descriptor pointer: a static's tag, or the type_ word of
\* the heap block p points to.
type_of(m, p) ==
    IF p \in Statics THEN ScalarTags[p - StaticAddr(0)]
    ELSE Load(m, p, ffi_type.type_)

\* Recursion depth the walks can reach on a well-formed heap; a walk that goes
\* deeper is on a cycle and overflows the stack.
StackDepth == MaxAddr + 1

\* ------------------------------------------------- the raw operations
RECURSIVE LenScan(_, _, _)
\* while !(*array).is_null() { count += 1; array = array.offset(1) }
LenScan(m, array, count) ==
    LET m1 == Access(m, array, count + 1)
    IN  IF Load(m1, array, count + 1) = NULL
        THEN Ret(m1, count)
        ELSE LenScan(m1, array, count + 1)

ffi_type_array_len(m, array) ==
    IF array \notin Addr THEN Ret(Halt(m, "segv"), 0)
    ELSE LenScan(m, array, 0)

ffi_type_array_create_empty(m, len, ord) ==
    LET r == malloc(m, len + 1, ord)
    IN  IF r.val = NULL THEN Ret(Halt(r.m, "assert"), NULL)
        ELSE Ret(Store(r.m, r.val, len + 1, NULL), r.val)

RECURSIVE FillSlotsReversed(_, _, _, _)
\* A faulty fill that writes the members in reverse order.
FillSlotsReversed(m, new, elements, i) ==
    IF i > Len(elements) THEN m
    ELSE FillSlotsReversed(Store(m, new, i, elements[Len(elements) + 1 - i]),
                           new, elements, i + 1)

RECURSIVE FillSlots(_, _, _, _)
\* for i in 0 .. size { *new.offset(i) = *elements[i].0 }
FillSlots(m, new, elements, i) ==
    IF i > Len(elements) THEN m
    ELSE FillSlots(Store(m, new, i, elements[i]), new, elements, i + 1)

\* elements: the descriptor pointers of the Vec<Type>, in order.  The members
\* are forgotten, not dropped: nothing is destroyed here.
ffi_type_array_create(m, elements, ord) ==
    LET r == ffi_type_array_create_empty(m, Len(elements), ord)
    IN  IF Halted(r.m) THEN r
        ELSE Ret(FillSlots(r.m, r.val, elements, 1), r.val)

ffi_type_struct_create_raw(m, elements, ord) ==
    LET r == malloc(m, 4, ord)
    IN  IF r.val = NULL THEN Ret(Halt(r.m, "assert"), NULL)
        ELSE LET m1 == Store(r.m, r.val, ffi_type.size, 0)
                 m2 == Store(m1, r.val, ffi_type.alignment, 0)
                 m3 == Store(m2, r.val, ffi_type.type_, STRUCT)
                 m4 == Store(m3, r.val, ffi_type.elements, elements)
             IN  Ret(m4, r.val)

ffi_type_struct_create(m, elements, ord) ==
    LET a == ffi_type_array_create(m, elements, ord)
    IN  IF Halted(a.m) THEN a
        ELSE ffi_type_struct_create_raw(a.m, a.val, ord)

RECURSIVE ffi_type_array_clone(_, _, _, _)
RECURSIVE ffi_type_clone(_, _, _, _)
RECURSIVE CloneSlots(_, _, _, _, _, _, _)

\* for i in 0 .. size { *new.offset(i) = ffi_type_clone(*old.offset(i)) }
CloneSlots(m, old, new, i, size, ord, fuel) ==
    IF Halted(m) \/ i > size THEN m
    ELSE LET m1 == Access(m, old, i)
             c  == ffi_type_clone(m1, Load(m1, old, i), ord, fuel)
         IN  IF Halted(c.m) THEN c.m
             ELSE CloneSlots(Store(c.m, new, i, c.val), old, new, i + 1,
                             size, ord, fuel)

ffi_type_array_clone(m, old, ord, fuel) ==
    IF old \notin Addr THEN Ret(Halt(m, "segv"), NULL)
    ELSE LET l == ffi_type_array_len(m, old)
             n == ffi_type_array_create_empty(l.m, l.val, ord)
         IN  IF Halted(n.m) THEN n
             ELSE Ret(CloneSlots(n.m, old, n.val, 1, l.val, ord, fuel), n.val)

ffi_type_clone(m, old, ord, fuel) ==
    IF old \notin Addr \cup Statics THEN Ret(Halt(m, "segv"), NULL)
    ELSE LET m1 == IF old \in Addr THEN Access(m, old, ffi_type.type_) ELSE m
         IN  IF type_of(m1, old) = STRUCT
             THEN IF fuel = 0 THEN Ret(Halt(m1, "overflow"), NULL)
                  ELSE LET m2 == Access(m1, old, ffi_type.elements)
                           a  == ffi_type_array_clone(
                                     m2, Load(m2, old, ffi_type.elements),
                                     ord, fuel - 1)
                       IN  IF Halted(a.m) THEN a
                           ELSE ffi_type_struct_create_raw(a.m, a.val, ord)
             ELSE Ret(m1, old)

RECURSIVE ffi_type_array_destroy(_, _, _)
RECURSIVE ffi_type_destroy(_, _, _)
RECURSIVE DestroySlots(_, _, _, _)

\* while !(*current).is_null() { ffi_type_destroy(*current); current += 1 }
DestroySlots(m, victim, i, fuel) ==
    IF Halted(m) THEN m
    ELSE LET m1  == Access(m, victim, i)
             cur == Load(m1, victim, i)
         IN  IF cur = NULL THEN m1
             ELSE DestroySlots(ffi_type_destroy(m1, cur, fuel), victim, i + 1, fuel)

ffi_type_array_destroy(m, victim, fuel) ==
    IF victim \notin Addr THEN Halt(m, "segv")
    ELSE LET m1 == DestroySlots(m, victim, 1, fuel)
         IN  IF Halted(m1) THEN m1 ELSE free(m1, victim)

ffi_type_destroy(m, victim, fuel) ==
    IF victim \notin Addr \cup Statics THEN Halt(m, "segv")
    ELSE LET m1 == IF victim \in Addr THEN Access(m, victim, ffi_type.type_) ELSE m
         IN  IF type_of(m1, victim) = STRUCT
             THEN IF fuel = 0 THEN Halt(m1, "overflow")
                  ELSE LET m2 == Access(m1, victim, ffi_type.elements)
                           m3 == ffi_type_array_destroy(
                                     m2, Load(m2, victim, ffi_type.elements),
                                     fuel - 1)
                       IN  IF Halted(m3) THEN m3 ELSE free(m3, victim)
             ELSE m1

\* impl Drop for Type
drop_Type(m, p) == IF Halted(m) THEN m ELSE ffi_type_destroy(m, p, StackDepth)

\* impl Drop for TypeArray
drop_TypeArray(m, p) == IF Halted(m) THEN m ELSE ffi_type_array_destroy(m, p, StackDepth)

\* ------------------------------------------------------------ handles
\* A handle is nothing but the pointer it wraps (Type(Unique<ffi_type>),
\* TypeArray(Unique<*mut ffi_type>)), so the live handles are a bag of pointers.
LiveTypes  == BagToSet(types)
LiveArrays == BagToSet(arrays)

One(p) == SetToBag({p})

Range(s) == { s[i] : i \in DOMAIN s }

SeqToBag(s) == [p \in Range(s) |-> Cardinality({ i \in DOMAIN s : s[i] = p })]

\* The Vec<Type> arguments: up to MaxLen of the live handles, in any order,
\* each handle moved at most once.
FieldLists ==
    { s \in UNION { [1 .. n -> LiveTypes] : n \in 0 .. MaxLen } :
        SeqToBag(s) \sqsubseteq types }

\* A call: its name, its arguments (self or the accessor's index as a
\* one-element list, or the pointers of the Vec<Type>) and what it returned.
Op(name, arg, ret) == [op |-> name, arg |-> arg, ret |-> ret]

\* How an operation that ran on machine m leaves the process: a failed
\* assert! aborts it, a wild access or runaway recursion kills it, and after
\* any other memory fault it may die or survive.
Outcomes(m) ==
    IF m.halt = "assert" THEN {"aborted"}
    ELSE IF Halted(m) THEN {"crashed"}
    ELSE IF m.faults # {} THEN {"survived", "crashed"}
    ELSE {"running"}

\* The state an operation leaves: m is the machine it ran on, nt and na the
\* handles after it, op its name and result.  A process that died keeps
\* nothing: its state is frozen as it was before the call.
Finish(m, nt, na, op) ==
    \E st \in Outcomes(m) :
        /\ status' = st
        /\ after' = (IF after > 0 \/ op.op = "structure_from_array"
                     THEN after + 1 ELSE 0)
        /\ faults' = m.faults \cup (IF Halted(m) THEN {m.halt} ELSE {})
        /\ IF st = "crashed"
           THEN /\ UNCHANGED <<heap, types, arrays>>
                /\ trace' = <<>>
                /\ lastOp' = Op(op.op, op.arg, NULL)
           ELSE /\ heap' = m.heap
                /\ trace' = m.trace
                /\ types' = (IF st = "aborted" THEN types ELSE nt)
                /\ arrays' = (IF st = "aborted" THEN arrays ELSE na)
                /\ lastOp' = op

\* -------------------------------------------------------------- state
\* The process takes calls while it is alive (and, in this model, for MaxAfter
\* operations after its first structure_from_array).
Running == status = "running" /\ after <= MaxAfter

Init ==
    /\ heap = [a \in Addr |-> [alloc |-> FALSE, words |-> <<>>]]
    /\ types = EmptyBag
    /\ arrays = EmptyBag
    /\ status = "running"
    /\ trace = <<>>
    /\ faults = {}
    /\ lastOp = Op("init", <<>>, NULL)
    /\ after = 0

\* A faulty accessor that boxes the scalar descriptor in a malloc'ed block.
ScalarBoxed(k) ==
    /\ Running
    /\ BagCardinality(types) < MaxTypes
    /\ \E ord \in Orders :
           LET r == malloc(Machine(heap), 4, ord)
           IN  Finish(r.m, types (+) One(r.val), arrays, Op("scalar", <<k>>, r.val))

\* Type::void(), Type::u8(), ...: a handle on the k-th static descriptor.
Scalar(k) ==
    /\ Running
    /\ BagCardinality(types) < MaxTypes
    /\ Finish(Machine(heap), types (+) One(StaticAddr(k)), arrays,
              Op("scalar", <<k>>, StaticAddr(k)))

\* Type::structure(fields): the members are moved into the call.
Structure(elements, ord) ==
    /\ Running
    /\ BagCardinality(types) - Len(elements) < MaxTypes
    /\ LET r == ffi_type_struct_create(Machine(heap), elements, ord)
       IN  Finish(r.m, (types (-) SeqToBag(elements)) (+) One(r.val), arrays,
                  Op("structure", elements, r.val))

\* TypeArray::new(elements): the members are moved into the call.
TypeArrayNew(elements, ord) ==
    /\ Running
    /\ BagCardinality(arrays) < MaxArrays
    /\ LET r == ffi_type_array_create(Machine(heap), elements, ord)
       IN  Finish(r.m, types (-) SeqToBag(elements), arrays (+) One(r.val),
                  Op("array_new", elements, r.val))

\* Type::structure_from_array(fields): the descriptor is built on the array's
\* backing pointer, and `fields`, moved into the call and still owned by it,
\* is dropped when the function returns.
structure_from_array(m, fields, ord) ==
    LET r == ffi_type_struct_create_raw(m, fields, ord)
    IN  Ret(drop_TypeArray(r.m, fields), r.val)

StructureFromArray(fields, ord) ==
    /\ Running
    /\ fields \in LiveArrays
    /\ BagCardinality(types) < MaxTypes
    /\ LET r == structure_from_array(Machine(heap), fields, ord)
       IN  Finish(r.m, types (+) One(r.val), arrays (-) One(fields),
                  Op("structure_from_array", <<fields>>, r.val))

\* impl Clone for Type
CloneType(self, ord) ==
    /\ Running
    /\ self \in LiveTypes
    /\ BagCardinality(types) < MaxTypes
    /\ LET r == ffi_type_clone(Machine(heap), self, ord, StackDepth)
       IN  Finish(r.m, types (+) One(r.val), arrays, Op("clone_type", <<self>>, r.val))

\* impl Clone for TypeArray
CloneArray(self, ord) ==
    /\ Running
    /\ self \in LiveArrays
    /\ BagCardinality(arrays) < MaxArrays
    /\ LET r == ffi_type_array_clone(Machine(heap), self, ord, StackDepth)
       IN  Finish(r.m, types, arrays (+) One(r.val), Op("clone_array", <<self>>, r.val))

\* a Type handle goes out of scope
DropType(self) ==
    /\ Running
    /\ self \in LiveTypes
    /\ Finish(drop_Type(Machine(heap), self), types (-) One(self), arrays,
              Op("drop_type", <<self>>, NULL))

\* a TypeArray handle goes out of scope
DropArray(self) ==
    /\ Running
    /\ self \in LiveArrays
    /\ Finish(drop_TypeArray(Machine(heap), self), types, arrays (-) One(self),
              Op("drop_array", <<self>>, NULL))

\* A faulty accessor that takes the handle with it.
TypeAsRawPtrTaking(self) ==
    /\ Running
    /\ self \in LiveTypes
    /\ Finish(Machine(heap), types (-) One(self), arrays,
              Op("type_as_raw_ptr", <<self>>, self))

\* Type::as_raw_ptr
TypeAsRawPtr(self) ==
    /\ Running
    /\ self \in LiveTypes
    /\ Finish(Machine(heap), types, arrays, Op("type_as_raw_ptr", <<self>>, self))

\* TypeArray::len
ArrayLen(self) ==
    /\ Running
    /\ self \in LiveArrays
    /\ LET r == ffi_type_array_len(Machine(heap), self)
       IN  Finish(r.m, types, arrays, Op("len", <<self>>, r.val))

\* TypeArray::as_raw_ptr
ArrayAsRawPtr(self) ==
    /\ Running
    /\ self \in LiveArrays
    /\ Finish(Machine(heap), types, arrays, Op("array_as_raw_ptr", <<self>>, self))

Next ==
    \/ \E k \in 1 .. NumScalars : Scalar(k)
    \/ \E fs \in FieldLists, ord \in Orders : Structure(fs, ord)
    \/ \E fs \in FieldLists, ord \in Orders : TypeArrayNew(fs, ord)
    \/ \E p \in LiveArrays, ord \in Orders : StructureFromArray(p, ord)
    \/ \E p \in LiveTypes, ord \in Orders : CloneType(p, ord)
    \/ \E p \in LiveArrays, ord \in Orders : CloneArray(p, ord)
    \/ \E p \in LiveTypes : DropType(p)
    \/ \E p \in LiveArrays : DropArray(p)
    \/ \E p \in LiveTypes : TypeAsRawPtr(p)
    \/ \E p \in LiveArrays : ArrayLen(p)
    \/ \E p \in LiveArrays : ArrayAsRawPtr(p)

Spec == Init /\ [][Next]_vars

\* ===================================================================
\* Properties
\* ===================================================================
\* What the walks see in the memory as it stands: the word at a[i], the
\* length an array scan finds, and whether a block holds a STRUCT descriptor.
Word(h, a, i) == IF i <= Len(h[a].words) THEN h[a].words[i] ELSE NULL

ScanLen(h, a) ==
    Cardinality({ i \in DOMAIN h[a].words :
                    \A j \in 1 .. i : h[a].words[j] # NULL })

IsStruct(h, p) == p \in Addr /\ Word(h, p, ffi_type.type_) = STRUCT

RECURSIVE TypeNodes(_, _, _)
RECURSIVE ArrayNodes(_, _, _)

\* The heap blocks a descriptor pointer leads to: the descriptor and, below a
\* STRUCT, its elements array and everything under it.
TypeNodes(h, p, fuel) ==
    IF p \notin Addr THEN {}
    ELSE IF fuel = 0 \/ ~IsStruct(h, p) THEN {p}
    ELSE {p} \cup ArrayNodes(h, Word(h, p, ffi_type.elements), fuel - 1)

\* The heap blocks an array pointer leads to.
ArrayNodes(h, a, fuel) ==
    IF a \notin Addr THEN {}
    ELSE {a} \cup UNION { TypeNodes(h, Word(h, a, i), fuel) : i \in 1 .. ScanLen(h, a) }

NodesOfType(p)  == TypeNodes(heap, p, StackDepth)
NodesOfArray(a) == ArrayNodes(heap, a, StackDepth)

\* Every block some live handle leads to.
HandleNodes ==
    UNION { NodesOfType(p) : p \in LiveTypes }
        \cup UNION { NodesOfArray(a) : a \in LiveArrays }

Allocated == { a \in Addr : heap[a].alloc }

\* The process is alive, or has come through a faulting operation.
Alive == status \in {"running", "survived"}

Frees == { i \in DOMAIN trace : trace[i].call = "free" }

\* -------------------------------------------------------------------
\* C1: no heap node is freed more than once: every free() of every operation
\* is applied to a block that is allocated at that moment.
C1_NoDoubleFree ==
    Alive => \A i \in Frees : trace[i].live

\* -------------------------------------------------------------------
\* C2: when structure_from_array returns, the array's backing allocation is
\* still allocated, it is the elements pointer of the returned descriptor,
\* and the consumed array handle has freed nothing.
C2_FromArrayAbsorbs ==
    (Alive /\ lastOp.op = "structure_from_array") =>
        /\ Word(heap, lastOp.ret, ffi_type.elements) = lastOp.arg[1]
        /\ heap[lastOp.arg[1]].alloc
        /\ Frees = {}

\* -------------------------------------------------------------------
\* C3: DESTROYED is terminal: every block a live handle leads to is
\* allocated, and no operation touches a block after it has been freed.
C3_NoUseAfterFree ==
    Alive => /\ HandleNodes \subseteq Allocated
             /\ "use_after_free" \notin faults

\* -------------------------------------------------------------------
\* C4: no leak: once every Type and TypeArray handle has been dropped or
\* consumed, no block of the heap is still allocated.
C4_NoLeak ==
    (Alive /\ types = EmptyBag /\ arrays = EmptyBag) => Allocated = {}

\* -------------------------------------------------------------------
CloneDisjoint ==
    faults = {} /\ \A q \in BagToSet(types (-) One(lastOp.ret)) :
                      NodesOfType(q) \cap NodesOfType(lastOp.ret) = {}

DropSparesOthers ==
    faults = {} /\ \A q \in LiveTypes : NodesOfType(q) \subseteq Allocated

\* C5: a structure Type and its clones share no heap node, and they can be
\* dropped in any order: a clone of a structure runs without fault and its
\* blocks are disjoint from those of every other live Type, and a drop of a
\* structure runs without fault and leaves every remaining Type's blocks
\* allocated.
C5_ClonesIndependent ==
    (Alive /\ lastOp.op \in {"clone_type", "drop_type"} /\ lastOp.arg[1] \in Addr) =>
        IF lastOp.op = "clone_type" THEN CloneDisjoint ELSE DropSparesOthers

\* -------------------------------------------------------------------
ScalarCall(op) ==
    \/ op.op = "scalar"
    \/ op.op \in {"clone_type", "drop_type"} /\ op.arg[1] \in Statics

\* C6: creating, cloning or dropping a scalar Type never allocates and never
\* frees: the call returns, the heap is unchanged, no malloc or free is made,
\* an accessor returns its static's address and a clone the address of the
\* original.
C6_ScalarNoHeap ==
    [][ScalarCall(lastOp') =>
          /\ status' = "running"
          /\ heap' = heap
          /\ trace' = <<>>
          /\ lastOp'.op = "scalar" => lastOp'.ret = StaticAddr(lastOp'.arg[1])
          /\ lastOp'.op = "clone_type" => lastOp'.ret = lastOp'.arg[1]]_vars

\* Two handles on one static, one of them made by clone, next to a live heap
\* block.
C6_Witness ==
    /\ lastOp.op = "clone_type"
    /\ lastOp.arg[1] \in Statics
    /\ CopiesIn(lastOp.arg[1], types) >= 2
    /\ Allocated # {}

\* -------------------------------------------------------------------
\* C7: TypeArray::new(elements) allocates one block of Len(elements) + 1
\* words that holds the members' descriptor pointers in input order, followed
\* by NULL; len() of it is Len(elements); nothing else in the heap changes and
\* nothing is freed; the members' handles are consumed and the array's handle
\* is live.  The only other outcome is the abort on a failed allocation.
C7_ArrayNew ==
    [][lastOp'.op = "array_new" =>
          \/ status' = "aborted"
          \/ /\ status' = "running"
             /\ lastOp'.ret \in Addr
             /\ ~heap[lastOp'.ret].alloc
             /\ heap' = [heap EXCEPT ![lastOp'.ret] =
                            [alloc |-> TRUE, words |-> lastOp'.arg \o <<NULL>>]]
             /\ ffi_type_array_len(Machine(heap'), lastOp'.ret) =
                    Ret(Machine(heap'), Len(lastOp'.arg))
             /\ Len(trace') = 1 /\ trace'[1].call = "malloc"
             /\ types' = types (-) SeqToBag(lastOp'.arg)
             /\ arrays' = arrays (+) One(lastOp'.ret)]_vars

\* An array of a structure followed by a scalar.
C7_Witness ==
    /\ lastOp.op = "array_new"
    /\ status = "running"
    /\ Len(lastOp.arg) = 2
    /\ lastOp.arg[1] \in Addr
    /\ lastOp.arg[2] \in Statics

\* -------------------------------------------------------------------
RECURSIVE ShapeOfType(_, _, _)
RECURSIVE ShapeOfArray(_, _, _)

\* The tree under a descriptor pointer: a scalar leaf with its static's
\* address, or a STRUCT node with the trees of its elements in order.
ShapeOfType(h, p, fuel) ==
    IF p \in Statics THEN [tag |-> "scalar", at |-> p, elems |-> <<>>]
    ELSE IF p \notin Addr THEN [tag |-> "wild", at |-> p, elems |-> <<>>]
    ELSE IF ~IsStruct(h, p) THEN [tag |-> "opaque", at |-> p, elems |-> <<>>]
    ELSE IF fuel = 0 THEN [tag |-> "deep", at |-> NULL, elems |-> <<>>]
    ELSE [tag |-> "struct", at |-> NULL,
          elems |-> ShapeOfArray(h, Word(h, p, ffi_type.elements), fuel - 1)]

ShapeOfArray(h, a, fuel) ==
    IF a \notin Addr THEN <<>>
    ELSE [i \in 1 .. ScanLen(h, a) |-> ShapeOfType(h, Word(h, a, i), fuel)]

Mallocs == { trace[i].addr : i \in { j \in DOMAIN trace : trace[j].call = "malloc" } }

CloneOfTypeEqual ==
    /\ ShapeOfType(heap, lastOp.ret, StackDepth) = ShapeOfType(heap, lastOp.arg[1], StackDepth)
    /\ NodesOfType(lastOp.ret) \subseteq Allocated \cap Mallocs

CloneOfArrayEqual ==
    /\ ShapeOfArray(heap, lastOp.ret, StackDepth) = ShapeOfArray(heap, lastOp.arg[1], StackDepth)
    /\ NodesOfArray(lastOp.ret) \subseteq Allocated \cap Mallocs

\* C8: a clone of a Type or TypeArray returns (unless the allocation fails),
\* touches no freed memory, and yields a tree equal to the original's: the
\* same length at every array, STRUCT where the original has STRUCT, the same
\* static address at every scalar leaf; every heap block of the clone was
\* allocated by the clone call.
C8_CloneEqual ==
    (lastOp.op \in {"clone_type", "clone_array"} /\ status # "aborted") =>
        IF status = "running"
        THEN IF lastOp.op = "clone_type" THEN CloneOfTypeEqual ELSE CloneOfArrayEqual
        ELSE FALSE

\* -------------------------------------------------------------------
\* The words of an allocated block that hold pointers: the elements word of a
\* STRUCT descriptor, every slot of an array.
PointerWords(b) ==
    IF IsStruct(heap, b) /\ Len(heap[b].words) = 4 THEN {ffi_type.elements}
    ELSE DOMAIN heap[b].words

\* How many places hold a pointer to block a: handles, and pointer words of
\* allocated blocks.
InRefs(a) ==
    CopiesIn(a, types) + CopiesIn(a, arrays)
        + Cardinality({ bi \in Allocated \X (1 .. MaxLen + 4) :
                          /\ bi[2] \in PointerWords(bi[1])
                          /\ heap[bi[1]].words[bi[2]] = a })

\* C9: exclusive ownership: every allocated block is reachable from a live
\* handle and is pointed to from exactly one place, so the owned blocks form a
\* forest with one handle at each root.
C9_ExclusiveOwnership ==
    Alive => \A a \in Allocated : InRefs(a) = 1 /\ a \in HandleNodes

\* -------------------------------------------------------------------
\* C10: Type::as_raw_ptr, TypeArray::as_raw_ptr and TypeArray::len change
\* nothing: the heap and the handles are as before, nothing is allocated or
\* freed, and the as_raw_ptr calls return the pointer the handle wraps.
C10_AccessorsPure ==
    [][lastOp'.op \in {"type_as_raw_ptr", "array_as_raw_ptr", "len"} =>
          /\ heap' = heap
          /\ types' = types
          /\ arrays' = arrays
          /\ trace' = <<>>
          /\ lastOp'.op # "len" =>
                 /\ status' = "running"
                 /\ lastOp'.ret = lastOp'.arg[1]]_vars

\* as_raw_ptr of a live structure Type, with a live TypeArray next to it.
C10_Witness ==
    /\ lastOp.op = "type_as_raw_ptr"
    /\ IsStruct(heap, lastOp.arg[1])
    /\ lastOp.arg[1] \in Allocated
    /\ arrays # EmptyBag
    /\ status = "running"

\* -------------------------------------------------------------------
RECURSIVE ArraysOfType(_, _, _)
RECURSIVE ArraysOfArray(_, _, _)

\* The array pointers a descriptor pointer leads to: the elements array of a
\* STRUCT and the arrays under its slots.
ArraysOfType(h, p, fuel) ==
    IF fuel = 0 \/ ~IsStruct(h, p) THEN {}
    ELSE ArraysOfArray(h, Word(h, p, ffi_type.elements), fuel - 1)

ArraysOfArray(h, a, fuel) ==
    IF a \notin Addr THEN {}
    ELSE {a} \cup UNION { ArraysOfType(h, Word(h, a, i), fuel) : i \in 1 .. ScanLen(h, a) }

\* Every array a live handle leads to.
HandleArrays ==
    UNION { ArraysOfType(heap, p, StackDepth) : p \in LiveTypes }
        \cup UNION { ArraysOfArray(heap, a, StackDepth) : a \in LiveArrays }

\* The block is a run of non-null slots closed by one null slot.
Sentinelled(a) ==
    LET w == heap[a].words
    IN  /\ Len(w) >= 1
        /\ w[Len(w)] = NULL
        /\ \A i \in 1 .. Len(w) - 1 : w[i] # NULL

\* C11: sentinel invariant: every allocated array block a live handle leads
\* to (a TypeArray's backing array or the elements array of a STRUCT) has
\* one slot more than its logical length, NULL in the last slot and a
\* non-null pointer in every slot before it.
C11_Sentinel ==
    Alive => \A a \in HandleArrays \cap Allocated : Sentinelled(a)

\* -------------------------------------------------------------------
\* The blocks the last operation allocated and left allocated.
BuiltByLastOp == Mallocs \cap Allocated

\* The block holds nothing yet: no slot or field of it has been given a
\* non-null value.
Blank(a) == \A i \in DOMAIN heap[a].words : heap[a].words[i] = NULL

\* C12: allocation precedes population: when an allocation fails inside an
\* operation, no block the same operation allocated earlier has been
\* populated (holds a member's pointer or a descriptor's fields), so the
\* failure strands no partially built tree.
C12_NoHalfBuilt ==
    status = "aborted" => \A a \in BuiltByLastOp : Blank(a)

\* -------------------------------------------------------------------
\* The descriptor the last operation built and returned.
Produced ==
    /\ lastOp.op \in {"structure", "structure_from_array", "clone_type"}
    /\ Alive
    /\ lastOp.ret \in Mallocs

\* The fields ffi_type_struct_create_raw gives a descriptor built on elements.
FreshStruct(elements) == <<0, 0, STRUCT, elements>>

\* C13: a STRUCT descriptor returned by structure, structure_from_array or
\* clone has size 0, alignment 0 and tag STRUCT when it is returned; the
\* elements pointer of one returned by structure_from_array is the backing
\* pointer of the array passed in, and that call allocates nothing but the
\* descriptor; the elements pointer of one returned by structure or clone is
\* an array the same call allocated.
C13_FreshDescriptor ==
    Produced =>
        /\ lastOp.ret \in Allocated
        /\ IF lastOp.op = "structure_from_array"
           THEN /\ heap[lastOp.ret].words = FreshStruct(lastOp.arg[1])
                /\ Mallocs = {lastOp.ret}
           ELSE \E e \in Mallocs \ {lastOp.ret} :
                    heap[lastOp.ret].words = FreshStruct(e)

\* -------------------------------------------------------------------
\* The tree a dropped handle owns, in the heap before the drop.
TreeOf(op) ==
    IF op.op = "drop_type" THEN TypeNodes(heap, op.arg[1], StackDepth)
    ELSE ArrayNodes(heap, op.arg[1], StackDepth)

\* The blocks at and below block a, in the heap before the drop.
Under(a) ==
    IF IsStruct(heap, a) THEN TypeNodes(heap, a, StackDepth)
    ELSE ArrayNodes(heap, a, StackDepth)

\* C14: destroy order and extent: a drop frees each block of the dropped
\* handle's tree once, while it is allocated, and frees and changes nothing
\* else; it frees bottom-up: every block below a block (the descriptors in an
\* array's slots, the elements array of a structure) is freed before it.
C14_DestroyExtent ==
    [][(lastOp'.op \in {"drop_type", "drop_array"} /\ status' \in {"running", "survived"}) =>
          /\ \A i \in DOMAIN trace' : trace'[i].call = "free" /\ trace'[i].live
          /\ { trace'[i].addr : i \in DOMAIN trace' } = TreeOf(lastOp')
          /\ Len(trace') = Cardinality(TreeOf(lastOp'))
          /\ heap' = [a \in Addr |-> IF a \in TreeOf(lastOp')
                                     THEN [alloc |-> FALSE, words |-> <<>>]
                                     ELSE heap[a]]
          /\ \A i, j \in DOMAIN trace' :
                 (i # j /\ trace'[j].addr \in Under(trace'[i].addr)) => j < i]_vars

\* -------------------------------------------------------------------
\* Every descriptor pointer in use: the pointers the Type handles wrap and
\* the slots of the allocated arrays the handles lead to.
DescriptorRefs ==
    LiveTypes \cup UNION { { Word(heap, a, i) : i \in 1 .. ScanLen(heap, a) } :
                             a \in HandleArrays \cap Allocated }

\* C15: tag/ownership agreement: a descriptor pointer in use is either a
\* static scalar descriptor, whose tag is not STRUCT, or a heap block of this
\* module, which, while allocated, is a four-word descriptor with tag STRUCT.
C15_TagAgreement ==
    Alive => \A p \in DescriptorRefs :
                 \/ p \in Statics /\ type_of(Machine(heap), p) # STRUCT
                 \/ /\ p \in Addr
                    /\ p \in Allocated => (IsStruct(heap, p) /\ Len(heap[p].words) = 4)

\* -------------------------------------------------------------------
\* The tree of the handle a clone call copies, in the heap before the call.
SourceTree(op) ==
    IF op.op = "clone_type" THEN TypeNodes(heap, op.arg[1], StackDepth)
    ELSE ArrayNodes(heap, op.arg[1], StackDepth)

\* C16: clone leaves its source unchanged: every block of the source's tree is
\* allocated before and after the call with the same contents, no block that
\* was allocated is freed or modified, and the heap changes only in blocks
\* that were free and that the call allocated.
C16_CloneFrame ==
    [][(lastOp'.op \in {"clone_type", "clone_array"} /\ status' \in {"running", "survived"}) =>
          /\ SourceTree(lastOp') \subseteq { a \in Addr : heap[a].alloc /\ heap'[a] = heap[a] }
          /\ \A a \in Addr : heap[a].alloc => heap'[a] = heap[a]
          /\ \A i \in DOMAIN trace' : trace'[i].call = "malloc"
          /\ \A a \in Addr : heap'[a] # heap[a] =>
                 \E i \in DOMAIN trace' : trace'[i].addr = a]_vars

\* -------------------------------------------------------------------
\* The faults of a walk that does not end where the tree ends: a scan that
\* runs past the end of its block, a recursion that never returns, a jump
\* through a pointer that is no block.
Runaway == {"out_of_bounds", "overflow", "segv"}

\* C17: termination: len, clone and drop return on every handle the public
\* operations can produce: no sentinel scan runs past the end of its array,
\* no recursive walk overflows the stack, and len returns the logical length
\* of the array, one less than its number of slots.
C17_Terminates ==
    (lastOp.op \in {"len", "clone_type", "clone_array", "drop_type", "drop_array"}
        /\ status # "aborted") =>
        /\ Alive
        /\ faults \cap Runaway = {}
        /\ lastOp.op = "len" =>
               /\ lastOp.arg[1] \in Allocated
               /\ lastOp.ret = Len(heap[lastOp.arg[1]].words) - 1

====
